---- MODULE Spec2Model ----
(***************************************************************************)
(* The comparator-ordered priority queue of libpriqueue.c: a singly linked *)
(* list of nodes kept in ascending comparator order.  The heap is modelled *)
(* explicitly (node addresses, the content and next field of every node,   *)
(* the set of nodes malloc has handed out and free has not taken back), so *)
(* that every pointer access of the C code is an access the model sees.    *)
(***************************************************************************)
EXTENDS Integers, Sequences, FiniteSets, TLC

\* ------------------------------------------------------------------ bounds
\* number of nodes malloc can hand out in one run of the program
MaxNodes == 4

\* --------------------------------------------------------------- constants
\* the null pointer
NULL == 0

\* node addresses
Node == 1..MaxNodes

\* The caller's data: four int objects at four distinct addresses (1..4)
\* holding 3, 3, 5 and 8.  Payload pointers are these addresses.
IntValue == <<3, 3, 5, 8>>
Payload == DOMAIN IntValue

\* the caller's comparer: ascending integer compare of the pointed-to ints
IntCompare == [a \in Payload, b \in Payload |-> IntValue[a] - IntValue[b]]

\* index arguments: one below zero, every index of a full queue, one above
Index == -1..MaxNodes

VARIABLES
  size,       \* q->size
  root,       \* q->root
  comparer,   \* q->comparer
  content,    \* node->content of every node address
  next,       \* node->next of every node address
  allocated,  \* node addresses returned by malloc and not yet freed
  freed,      \* node addresses given back by free
  status,     \* "active", "destroyed" (after priqueue_destroy), "fault" (the
              \* process was stopped by an access through the null pointer)
              \* or "undefined" (a freed node was accessed)
  op,         \* the last call: its name and argument
  ret,        \* the value the last call returned
  offered,    \* history: the live nodes in the order of the offer calls that made them
  outstanding, \* history: number of offer calls minus number of nodes freed
  trip,       \* history: the calls so far, as long as they are offer calls
              \* followed by at most as many poll calls: how many items of
              \* each pointer were offered, and what the polls returned
  held        \* history: for each pointer, the number of offer calls that
              \* passed it minus the number of times a call gave it back

vars == <<size, root, comparer, content, next, allocated, freed, status, op, ret,
          offered, outstanding, trip, held>>

\* priqueue_init: an empty queue with the caller's comparer; no node exists
Init ==
  /\ size = 0
  /\ root = NULL
  /\ comparer = IntCompare
  /\ content = [n \in Node |-> NULL]
  /\ next = [n \in Node |-> NULL]
  /\ allocated = {}
  /\ freed = {}
  /\ status = "active"
  /\ op = [name |-> "init", arg |-> 0]
  /\ ret = 0
  /\ offered = <<>>
  /\ outstanding = 0
  /\ trip = [phase |-> "offering", items |-> [p \in Payload |-> 0], n |-> 0,
             out |-> <<>>]
  /\ held = [p \in Payload |-> 0]

\* ---------------------------------------------------------------- the heap
\* the calls priqueue_offer makes to q->comparer within one scan, numbered
\* from 0: one for each entry, and the queue has a node less than there are
Calls == 0..(MaxNodes - 2)

\* a comparer that implements the order c: its answer to (a, b) is c[a, b] at
\* every call
Consistent(c) == [a \in Payload, b \in Payload, k \in Calls |-> c[a, b]]

\* a comparer that answers its k-th call of a scan with answers[k], whatever
\* is compared
Answering(answers) == [a \in Payload, b \in Payload, k \in Calls |-> answers[k]]

\* the queue structure and the node memory as one value; comparer is the
\* function q->comparer points to, as its answer to every call of a scan
Cur == [size |-> size, root |-> root, content |-> content, next |-> next,
        allocated |-> allocated, freed |-> freed, comparer |-> Consistent(comparer)]

\* what a call does: it returns r and leaves the memory m, or it is stopped by
\* an invalid memory access through the pointer p (m is then the memory at
\* the access).  Every
\* invalid access the calls can make before priqueue_destroy is a load or a
\* store through the null pointer, which stops the process at that
\* instruction (a segmentation fault, in unoptimised and optimised builds
\* alike): the call returns nothing and no later call is made.  steps is the
\* number of times the call has entered the body of its loop.
Returns(m, r) == [fault |-> FALSE, mem |-> m, ret |-> r, steps |-> 0]
Faults(m, p) == [fault |-> TRUE, mem |-> m, ret |-> 0, steps |-> 0, at |-> p]

\* the outcome o of a call that has entered the body of its loop k times
Counted(o, k) == [o EXCEPT !.steps = k]

\* free(p): free(NULL) does nothing; a freed cell holds nothing the program
\* may read, which the model writes as a zeroed cell outside allocated
Free(m, p) ==
  IF p = NULL THEN m
  ELSE [m EXCEPT !.allocated = @ \ {p}, !.freed = @ \cup {p},
                 !.content[p] = NULL, !.next[p] = NULL]

\* a pointer the program may dereference: non-null and not freed
Valid(alloc, p) == p # NULL /\ p \in alloc

\* the nodes met by following next from p, as a sequence; the walk stops at
\* NULL, at a freed node or after MaxNodes + 1 nodes (which shows a cycle)
RECURSIVE Walk(_, _, _, _)
Walk(nx, alloc, p, fuel) ==
  IF p = NULL \/ fuel = 0 THEN <<>>
  ELSE IF p \notin alloc THEN <<p>>
  ELSE <<p>> \o Walk(nx, alloc, nx[p], fuel - 1)

\* the chain of a memory, read from root, and its contents in order
ChainOf(m) == Walk(m.next, m.allocated, m.root, MaxNodes + 1)
ContentsOf(m) == [i \in 1..Len(ChainOf(m)) |-> m.content[ChainOf(m)[i]]]
Chain == ChainOf([root |-> root, next |-> next, allocated |-> allocated])
Contents == ContentsOf([root |-> root, next |-> next, allocated |-> allocated,
                        content |-> content])

\* ----------------------------------------------------------- priqueue_offer
\* the comparison of line 58 turned round: the scan stops at a smaller entry
offer_stops_reversed(result) == result < 0

\* the comparison of line 58 made non-strict: the scan stops at an equal entry
offer_stops_on_equal(result) == result >= 0

\* line 58: the scan stops at the first entry that compares strictly greater
offer_stops(result) == result > 0

\* the loop condition of line 55 with <= for <: one entry more than there are
offer_scan_continues_one_more(counter, sz) == counter <= sz

\* line 55: the scan goes on while counter < q->size
offer_scan_continues(counter, sz) == counter < sz

\* lines 55-79: the scan from root; counter, now and last as the loop leaves
\* them, and whether it left by the return inside (found) or by its condition
RECURSIVE offer_scan(_, _, _, _, _)
offer_scan(m, ptr, counter, now, last) ==
  IF offer_scan_continues(counter, m.size)
  THEN IF ~Valid(m.allocated, now)
       THEN [fault |-> TRUE, found |-> FALSE, counter |-> counter, now |-> now, last |-> last]
       ELSE IF offer_stops(m.comparer[m.content[now], ptr, counter])
            THEN [fault |-> FALSE, found |-> TRUE, counter |-> counter, now |-> now, last |-> last]
            ELSE offer_scan(m, ptr, counter + 1, m.next[now], now)
  ELSE [fault |-> FALSE, found |-> FALSE, counter |-> counter, now |-> now, last |-> last]

\* lines 81-84: the index returned when the item is appended after the last entry
offer_end_index(counter) == counter + 1

\* lines 60-69 without the else branch: the new node always becomes the head
offer_link_as_head(m, node, now, last) ==
  [m EXCEPT !.root = node, !.next[node] = now]

\* lines 60-69: the new node is linked in before now, after last if there is one
offer_link(m, node, now, last) ==
  IF last = NULL
  THEN [m EXCEPT !.root = node, !.next[node] = now]
  ELSE [m EXCEPT !.next[last] = node, !.next[node] = now]

\* lines 36-87, with node the address malloc returned
offer(m, ptr, node) ==
  LET m0 == [m EXCEPT !.allocated = @ \cup {node}, !.content[node] = ptr,
                      !.next[node] = NULL]
  IN IF m0.root = NULL
     THEN Returns([m0 EXCEPT !.root = node, !.size = @ + 1], 0)
     ELSE LET s == offer_scan(m0, ptr, 0, m0.root, NULL)
          IN IF s.fault THEN Counted(Faults(m0, s.now), s.counter + 1)
             ELSE IF s.found
             THEN Counted(Returns([offer_link(m0, node, s.now, s.last)
                                     EXCEPT !.size = @ + 1], s.counter),
                          s.counter + 1)
             ELSE IF ~Valid(m0.allocated, s.last)
             THEN Counted(Faults(m0, s.last), s.counter)
             ELSE Counted(Returns([m0 EXCEPT !.next[s.last] = node, !.size = @ + 1],
                                  offer_end_index(s.counter)),
                          s.counter)

\* ------------------------------------------------------------ priqueue_peek
\* lines 98-104
peek(m) ==
  IF m.size = 0 THEN Returns(m, NULL)
  ELSE IF ~Valid(m.allocated, m.root) THEN Faults(m, m.root)
  ELSE Returns(m, m.content[m.root])

\* ------------------------------------------------------------ priqueue_poll
\* line 122 without the step to r->next: the head stays the polled node
poll_root_same(m, r) == r

\* line 122: the second entry becomes the head
poll_root(m, r) == m.next[r]

\* lines 115-127
poll(m) ==
  IF m.size = 0 THEN Returns(m, NULL)
  ELSE IF ~Valid(m.allocated, m.root) THEN Faults(m, m.root)
  ELSE LET r == m.root
           r_content == m.content[r]
           m1 == [m EXCEPT !.root = poll_root(m, r)]
           m2 == Free(m1, r)
       IN Returns([m2 EXCEPT !.size = @ - 1], r_content)

\* -------------------------------------------------------------- priqueue_at
\* line 141: the only range check, made before the walk
at_out_of_range(m, index) == index >= m.size

\* the loop of lines 145-147 with i <= index for its condition: one step more
RECURSIVE at_walk_one_more(_, _, _, _)
at_walk_one_more(m, index, i, now) ==
  IF i <= index
  THEN IF ~Valid(m.allocated, now) THEN [fault |-> TRUE, now |-> now, i |-> i + 1]
       ELSE at_walk_one_more(m, index, i + 1, m.next[now])
  ELSE [fault |-> FALSE, now |-> now, i |-> i]

\* lines 145-147: now after the walk of index steps from now, or a fault; i
\* is the number of times the body was entered
RECURSIVE at_walk(_, _, _, _)
at_walk(m, index, i, now) ==
  IF i < index
  THEN IF ~Valid(m.allocated, now) THEN [fault |-> TRUE, now |-> now, i |-> i + 1]
       ELSE at_walk(m, index, i + 1, m.next[now])
  ELSE [fault |-> FALSE, now |-> now, i |-> i]

\* lines 139-150
at(m, index) ==
  IF at_out_of_range(m, index) THEN Returns(m, NULL)
  ELSE LET w == at_walk(m, index, 0, m.root)
       IN IF w.fault \/ ~Valid(m.allocated, w.now) THEN Counted(Faults(m, w.now), w.i)
          ELSE Counted(Returns(m, m.content[w.now]), w.i)

\* ---------------------------------------------------------- priqueue_remove
\* line 168 with the comparer in place of ==: equal rank counts as a match
remove_matches_by_comparer(c, ptr) == comparer[c, ptr] = 0

\* line 168: an entry is removed when its content is the pointer itself
remove_matches(c, ptr) == c = ptr

\* line 185 as a plain decrement: one entry is taken to have been removed
remove_size_one(sz, counter) == sz - 1

\* line 185: the size after counter entries were removed
remove_size(sz, counter) == sz - counter

\* lines 167-183: the loop runs q->size times (q->size is written only after
\* it); m is the memory, counter the number of entries removed so far
RECURSIVE remove_loop(_, _, _, _, _, _)
remove_loop(m, ptr, i, now, last, counter) ==
  IF i < m.size
  THEN IF ~Valid(m.allocated, now) THEN Counted(Faults(m, now), i + 1)
       ELSE IF remove_matches(m.content[now], ptr)
            THEN IF last # NULL /\ ~Valid(m.allocated, last)
                 THEN Counted(Faults(m, last), i + 1)
                 ELSE LET m1 == IF last = NULL
                                THEN [m EXCEPT !.root = m.next[now]]
                                ELSE [m EXCEPT !.next[last] = m.next[now]]
                          r == now
                      IN remove_loop(Free(m1, r), ptr, i + 1, m1.next[now], last,
                                     counter + 1)
            ELSE remove_loop(m, ptr, i + 1, m.next[now], now, counter)
  ELSE Counted(Returns([m EXCEPT !.size = remove_size(@, counter)], counter), i)

\* lines 162-187
remove(m, ptr) == remove_loop(m, ptr, 0, m.root, NULL, 0)

\* ------------------------------------------------------- priqueue_remove_at
\* line 201: the only range check, made before the walk
remove_at_out_of_range(m, index) == index >= m.size

\* lines 207-210: now and last after the walk of index steps, or a fault
RECURSIVE remove_at_walk(_, _, _, _, _)
remove_at_walk(m, index, i, now, last) ==
  IF i < index
  THEN IF ~Valid(m.allocated, now)
       THEN [fault |-> TRUE, now |-> now, last |-> last, i |-> i + 1]
       ELSE remove_at_walk(m, index, i + 1, m.next[now], now)
  ELSE [fault |-> FALSE, now |-> now, last |-> last, i |-> i]

\* lines 199-218: line 213 writes last->next whatever last is
remove_at(m, index) ==
  IF remove_at_out_of_range(m, index) THEN Returns(m, NULL)
  ELSE LET w == remove_at_walk(m, index, 0, m.root, NULL)
       IN IF w.fault \/ ~Valid(m.allocated, w.now) THEN Counted(Faults(m, w.now), w.i)
          ELSE LET r_content == m.content[w.now]
               IN IF ~Valid(m.allocated, w.last) THEN Counted(Faults(m, w.last), w.i)
                  ELSE LET m1 == [m EXCEPT !.next[w.last] = m.next[w.now]]
                           m2 == Free(m1, w.now)
                       IN Counted(Returns([m2 EXCEPT !.size = @ - 1], r_content), w.i)

\* ------------------------------------------------------------ priqueue_size
\* lines 227-230
size_of(m) == Returns(m, m.size)

\* --------------------------------------------------------- priqueue_destroy
\* line 244 without the step: the loop ends after the first node
destroy_next_none(m, now) == NULL

\* line 244: the loop goes on with now->next, read before now is freed
destroy_next(m, now) == m.next[now]

\* lines 240-246: every node from root is freed; q->size and q->root are not
\* written; i is the number of times the body was entered
RECURSIVE destroy_loop(_, _, _)
destroy_loop(m, now, i) ==
  IF now # NULL
  THEN IF now \notin m.allocated THEN Counted(Faults(m, now), i + 1)
       ELSE LET r == now IN destroy_loop(Free(m, r), destroy_next(m, now), i + 1)
  ELSE Counted(Returns(m, 0), i)

\* lines 238-247
destroy(m) == destroy_loop(m, m.root, 0)

\* the history of offers followed by polls after the call name(arg) returned r
TripAfter(t, name, arg, r) ==
  IF name = "offer" /\ t.phase = "offering"
  THEN [t EXCEPT !.items[arg] = @ + 1, !.n = @ + 1]
  ELSE IF name = "poll" /\ t.phase \in {"offering", "polling"} /\ Len(t.out) < t.n
  THEN [t EXCEPT !.phase = "polling", !.out = Append(@, r)]
  ELSE [phase |-> "off", items |-> [p \in Payload |-> 0], n |-> 0, out |-> <<>>]

\* the items handed to the queue and not handed back, after the call name(arg)
\* returned r: offer takes arg, poll and remove_at give back the pointer they
\* return, remove gives back arg as many times as it returns
HeldAfter(h, name, arg, r) ==
  IF name = "offer" THEN [h EXCEPT ![arg] = @ + 1]
  ELSE IF name \in {"poll", "remove_at"} /\ r # NULL THEN [h EXCEPT ![r] = @ - 1]
  ELSE IF name = "remove" THEN [h EXCEPT ![arg] = @ - r]
  ELSE h

\* the members of a set of at most one node, as a sequence
SetToSeq(S) == IF S = {} THEN <<>> ELSE <<CHOOSE n \in S : TRUE>>

\* ------------------------------------------------------------- the calls
\* a call named name with argument arg and outcome o: the variables take the
\* memory the call leaves and the history is brought up to date; an access
\* through the null pointer ends the process with the memory as it was; an
\* access to a node that was freed, or a second free of it, has no defined
\* outcome: the state "undefined" stands for whatever the build does then, and
\* nothing is said of it
Call(name, arg, o) ==
  /\ op' = [name |-> name, arg |-> arg]
  /\ comparer' = comparer
  /\ IF o.fault
     THEN /\ status' = IF o.at = NULL THEN "fault" ELSE "undefined"
          /\ UNCHANGED <<size, root, content, next, allocated, freed, ret, offered,
                         outstanding, trip, held>>
     ELSE /\ status' = IF name = "destroy" THEN "destroyed" ELSE "active"
          /\ size' = o.mem.size
          /\ root' = o.mem.root
          /\ content' = o.mem.content
          /\ next' = o.mem.next
          /\ allocated' = o.mem.allocated
          /\ freed' = o.mem.freed
          /\ ret' = o.ret
          /\ outstanding' = outstanding + (IF name = "offer" THEN 1 ELSE 0)
                                         - Cardinality(allocated \ o.mem.allocated)
          /\ offered' = SelectSeq(offered, LAMBDA n : n \in o.mem.allocated)
                          \o SetToSeq(o.mem.allocated \ allocated)
          /\ trip' = TripAfter(trip, name, arg, o.ret)
          /\ held' = HeldAfter(held, name, arg, o.ret)

\* malloc: the allocator hands out the lowest address it has never handed
\* out, so a pointer to a freed node never comes to point to a live one and
\* every access to freed memory is seen as such
malloc(m) ==
  LET fresh == Node \ (m.allocated \cup m.freed)
  IN {n \in fresh : \A k \in fresh : n <= k}

priqueue_offer ==
  /\ status = "active"
  /\ \E ptr \in Payload : \E node \in malloc(Cur) :
        Call("offer", ptr, offer(Cur, ptr, node))

priqueue_peek ==
  /\ status = "active"
  /\ Call("peek", 0, peek(Cur))

priqueue_poll ==
  /\ status = "active"
  /\ Call("poll", 0, poll(Cur))

priqueue_at ==
  /\ status = "active"
  /\ \E index \in Index : Call("at", index, at(Cur, index))

priqueue_remove ==
  /\ status = "active"
  /\ \E ptr \in Payload : Call("remove", ptr, remove(Cur, ptr))

priqueue_remove_at ==
  /\ status = "active"
  /\ \E index \in Index : Call("remove_at", index, remove_at(Cur, index))

priqueue_size ==
  /\ status = "active"
  /\ Call("size", 0, size_of(Cur))

priqueue_destroy ==
  /\ status = "active"
  /\ Call("destroy", 0, destroy(Cur))

Next ==
  \/ priqueue_offer
  \/ priqueue_peek
  \/ priqueue_poll
  \/ priqueue_at
  \/ priqueue_remove
  \/ priqueue_remove_at
  \/ priqueue_size
  \/ priqueue_destroy

Spec == Init /\ [][Next]_vars

\* ------------------------------------------------- a misbehaving comparer
\* the results a comparer can give, by the one test line 58 makes of them:
\* not positive, positive
Sign == {0, 1}

\* the pointers offered with the misbehaving comparer: two of the objects,
\* so that a pointer comes twice and two pointers differ
AnyPayload == {1, 3}

\* priqueue_offer with a comparer that answers each call of the scan with any
\* result at all: not antisymmetric, not transitive, not the same twice
priqueue_offer_any ==
  /\ status = "active"
  /\ \E ptr \in AnyPayload : \E node \in malloc(Cur) : \E answers \in [Calls -> Sign] :
        Call("offer", ptr, offer([Cur EXCEPT !.comparer = Answering(answers)], ptr, node))

\* the calls that change the queue, with the misbehaving comparer
NextAny ==
  \/ priqueue_offer_any
  \/ priqueue_poll
  \/ priqueue_remove
  \/ priqueue_remove_at

SpecAny == Init /\ [][NextAny]_vars

\* ------------------------------------------------------ words for the claims
\* the queue memory of the state
memvars == <<size, root, content, next, allocated, freed>>

\* s with e put at position i, and s without its i-th element
InsertAt(s, i, e) == SubSeq(s, 1, i - 1) \o <<e>> \o SubSeq(s, i, Len(s))
RemoveAt(s, i) == SubSeq(s, 1, i - 1) \o SubSeq(s, i + 1, Len(s))

\* the position (from 1) of node n in the sequence of nodes s, 0 if absent
PosIn(s, n) == IF \E i \in 1..Len(s) : s[i] = n
               THEN CHOOSE i \in 1..Len(s) : s[i] = n ELSE 0

\* the first position (from 1) of the contents cs whose occupant compares
\* strictly greater than item, or the position after the last
FirstGreater(cs, item) ==
  IF \E i \in 1..Len(cs) : comparer[cs[i], item] > 0
  THEN CHOOSE i \in 1..Len(cs) :
         /\ comparer[cs[i], item] > 0
         /\ \A k \in 1..(i - 1) : comparer[cs[k], item] <= 0
  ELSE Len(cs) + 1

\* the node made by the latest offer call
Newest == offered[Len(offered)]

\* the nodes that stay keep their content
KeptContents == \A n \in allocated \cap allocated' : content'[n] = content[n]

\* ------------------------------------------------------------------ claims
\* C1: while the queue is in use, every adjacent pair (a, b) of the chain read
\* from root satisfies comparer(a.content, b.content) <= 0.
C1_OrderInvariant ==
  status # "destroyed" =>
    \A i \in 1..(Len(Chain) - 1) :
      comparer[content[Chain[i]], content[Chain[i + 1]]] <= 0

\* C1 witness: an offer has put an item strictly between two entries of a
\* chain of four, one of them a tie
C1_Witness ==
  /\ status = "active" /\ op.name = "offer"
  /\ Len(Chain) = 4
  /\ PosIn(Chain, Newest) \in {2, 3}
  /\ comparer[Contents[1], Contents[2]] = 0
  /\ comparer[Contents[3], Contents[4]] < 0

\* C2: priqueue_offer returns the index at which the item lands: priqueue_at
\* of the returned index, called right after, returns the offered item.
C2_OfferIndexContract ==
  (status = "active" /\ op.name = "offer") =>
    LET o == at(Cur, ret) IN ~o.fault /\ o.mem = Cur /\ o.ret = op.arg

\* C3: priqueue_offer puts the item at the first position whose occupant
\* compares strictly greater, or after the last entry; the entries already
\* there keep their order and content, and size grows by one.
C3_OfferPosition ==
  [][op'.name = "offer" =>
       LET pos == FirstGreater(Contents, op'.arg)
       IN /\ status' = "active"
          /\ Chain' = InsertAt(Chain, pos, Newest')
          /\ Contents' = InsertAt(Contents, pos, op'.arg)
          /\ KeptContents
          /\ size' = size + 1]_vars

\* C3 witness: an offer has put its item before a strictly greater entry and
\* after two others
C3_Witness ==
  /\ status = "active" /\ op.name = "offer"
  /\ Len(Chain) = 4
  /\ PosIn(Chain, Newest) = 3
  /\ comparer[Contents[4], op.arg] > 0

\* C4: two entries of the queue that compare equal stand in the order of
\* their offer calls; so a newly offered item stands after every entry that
\* compares equal to it.
C4_StableTies ==
  status = "active" =>
    \A i, j \in 1..Len(offered) :
      (/\ i < j
       /\ PosIn(Chain, offered[i]) > 0
       /\ PosIn(Chain, offered[j]) > 0
       /\ comparer[content[offered[i]], content[offered[j]]] = 0)
      => PosIn(Chain, offered[i]) < PosIn(Chain, offered[j])

\* C4 witness: the two distinct objects holding 3 are in the queue, the
\* second object offered first and standing first, and an offer of a tie has
\* just landed behind an equal entry
C4_Witness ==
  /\ status = "active" /\ op.name = "offer" /\ op.arg = 1
  /\ Len(Chain) >= 3
  /\ Contents[1] = 2 /\ Contents[2] = 1
  /\ Chain[2] = Newest
  /\ comparer[Contents[3], op.arg] > 0

\* C5: while the queue is in use, following next from root visits exactly
\* size distinct live nodes and then reaches NULL, and size is the number of
\* offer calls minus the number of nodes removed.
C5_SizeAndShape ==
  status = "active" =>
    /\ Len(Chain) = size
    /\ \A i, j \in 1..Len(Chain) : i # j => Chain[i] # Chain[j]
    /\ \A i \in 1..Len(Chain) : Chain[i] \in allocated
    /\ IF size = 0 THEN root = NULL ELSE next[Chain[Len(Chain)]] = NULL
    /\ size = outstanding

\* C5 witness: two entries are left after a remove call that took two out
C5_Witness ==
  /\ status = "active" /\ op.name = "remove" /\ ret = 2
  /\ size = 2 /\ Len(Chain) = 2

\* C6: for every index with 0 <= index < size, index 0 included,
\* priqueue_remove_at returns the content at that index, removes that one
\* entry, makes size one less and leaves the other entries in their order.
C6_RemoveAtInRange ==
  [][(op'.name = "remove_at" /\ op'.arg >= 0 /\ op'.arg < size) =>
       /\ status' = "active"
       /\ ret' = Contents[op'.arg + 1]
       /\ Chain' = RemoveAt(Chain, op'.arg + 1)
       /\ KeptContents
       /\ size' = size - 1]_vars

\* C7: priqueue_at returns NULL, without a fault and without changing the
\* queue, for every index < 0 and every index >= size.
C7_AtOutOfRange ==
  [][(op'.name = "at" /\ (op'.arg < 0 \/ op'.arg >= size)) =>
       /\ status' = "active"
       /\ ret' = NULL
       /\ UNCHANGED memvars]_vars

\* C8: priqueue_remove_at with an index < 0 or >= size returns NULL and leaves
\* size, root and every node as they were, freeing nothing.
C8_RemoveAtOutOfRange ==
  [][(op'.name = "remove_at" /\ (op'.arg < 0 \/ op'.arg >= size)) =>
       /\ status' = "active"
       /\ ret' = NULL
       /\ UNCHANGED memvars]_vars

\* C9: priqueue_remove removes exactly the entries whose content is the very
\* pointer given, wherever they stand, and none that only compares equal; it
\* returns their number, makes size that much less and leaves the other
\* entries in their order.
C9_RemoveAll ==
  [][op'.name = "remove" =>
       LET keep(n) == content[n] # op'.arg
           hit == {i \in 1..Len(Chain) : content[Chain[i]] = op'.arg}
       IN /\ status' = "active"
          /\ Chain' = SelectSeq(Chain, keep)
          /\ KeptContents
          /\ freed' = freed \cup {Chain[i] : i \in hit}
          /\ ret' = Cardinality(hit)
          /\ size' = size - Cardinality(hit)]_vars

\* C9 witness: the pointer stood at the head and, not adjacent, further on;
\* both went, and an entry that compares equal to it stayed with the rest
C9_Witness ==
  /\ status = "active" /\ op.name = "remove" /\ op.arg = 1
  /\ ret = 2
  /\ Contents = <<2, 3>>
  /\ freed = {1, 3}

\* C10: on a non-empty queue priqueue_poll returns the content at index 0,
\* makes the second entry (or NULL) the head, makes size one less and leaves
\* every other entry in place.
C10_Poll ==
  [][(op'.name = "poll" /\ size > 0) =>
       /\ status' = "active"
       /\ ret' = Contents[1]
       /\ root' = (IF Len(Chain) >= 2 THEN Chain[2] ELSE NULL)
       /\ size' = size - 1
       /\ Chain' = Tail(Chain)
       /\ \A i \in 1..size' : Contents'[i] = Contents[i + 1]]_vars

\* C10 witness: a poll has taken the head off a queue of three
C10_Witness ==
  /\ status = "active" /\ op.name = "poll"
  /\ ret = 1
  /\ Contents = <<2, 4>>

\* C11: on an empty queue priqueue_peek, priqueue_poll and priqueue_at(0)
\* return NULL, priqueue_remove returns 0 and priqueue_remove_at returns NULL
\* for any index, and none of them changes size or root.
C11_EmptyQueue ==
  [][(/\ size = 0
      /\ \/ op'.name \in {"peek", "poll", "remove", "remove_at"}
         \/ op'.name = "at" /\ op'.arg = 0) =>
       /\ status' = "active"
       /\ ret' = 0
       /\ size' = size
       /\ root' = root]_vars

\* how many times x occurs in the sequence sq
CountIn(sq, x) == Cardinality({i \in 1..Len(sq) : sq[i] = x})

\* C12: after n offer calls on a fresh queue, n poll calls return exactly the
\* n offered items, each once, in non-decreasing comparer order, and leave
\* the queue empty.
C12_RoundTrip ==
  (status = "active" /\ trip.phase = "polling" /\ Len(trip.out) = trip.n) =>
    /\ \A i \in 1..Len(trip.out) : trip.out[i] \in Payload
    /\ \A p \in Payload : CountIn(trip.out, p) = trip.items[p]
    /\ \A i \in 1..(Len(trip.out) - 1) : comparer[trip.out[i], trip.out[i + 1]] <= 0
    /\ size = 0
    /\ root = NULL

\* C12 witness: four items, with a pointer offered twice and a tie between
\* two pointers, have come back from four polls
C12_Witness ==
  /\ status = "active" /\ op.name = "poll"
  /\ trip.phase = "polling"
  /\ trip.n = 4
  /\ trip.out = <<2, 1, 3, 3>>

\* the queue after priqueue_offer of 5, 3, 8 and 3 (the objects 3, 1, 4 and 2,
\* in that order) on a fresh queue: four nodes made in that order, none freed
Scenario13 ==
  /\ status = "active"
  /\ allocated = {1, 2, 3, 4} /\ freed = {}
  /\ content[1] = 3 /\ content[2] = 1 /\ content[3] = 4 /\ content[4] = 2

\* C13: offering 5, 3, 8, 3 to a fresh queue yields [3, 3, 5, 8] with the
\* first-offered 3 in front of the second; priqueue_at(1) then returns the
\* first-offered 3; priqueue_remove_at(2) then returns 5 and leaves [3, 3, 8].
C13_Scenario ==
  [][/\ Scenario13' =>
          /\ Contents' = <<1, 2, 3, 4>>
          /\ (op'.name = "at" /\ op'.arg = 1) => ret' = 1
     /\ (Scenario13 /\ op'.name = "remove_at" /\ op'.arg = 2) =>
          /\ status' = "active"
          /\ ret' = 3
          /\ Contents' = <<1, 2, 4>>]_vars

\* C13 as amended: as C13, but priqueue_at(1) returns the second-offered 3;
\* it is priqueue_at(0) that returns the first-offered 3.
C13_ScenarioAmended ==
  [][/\ Scenario13' =>
          /\ Contents' = <<1, 2, 3, 4>>
          /\ (op'.name = "at" /\ op'.arg = 0) => ret' = 1
          /\ (op'.name = "at" /\ op'.arg = 1) => ret' = 2
     /\ (Scenario13 /\ op'.name = "remove_at" /\ op'.arg = 2) =>
          /\ status' = "active"
          /\ ret' = 3
          /\ Contents' = <<1, 2, 4>>]_vars

\* C13 witness: the scenario has been played to its end
C13_Witness ==
  /\ status = "active" /\ op.name = "remove_at" /\ op.arg = 2
  /\ ret = 3
  /\ freed = {1} /\ allocated = {2, 3, 4}
  /\ content[2] = 1 /\ content[3] = 4 /\ content[4] = 2
  /\ Contents = <<1, 2, 4>>

\* C14: priqueue_peek returns the content at index 0, priqueue_at(index) with
\* 0 <= index < size the content of the index-th entry from root, and
\* priqueue_size the size field; each leaves size, root, every next link and
\* every content as it was.
C14_QueriesPure ==
  [][/\ (op'.name = "peek" /\ size > 0) => ret' = Contents[1]
     /\ (op'.name = "at" /\ op'.arg >= 0 /\ op'.arg < size) =>
          ret' = Contents[op'.arg + 1]
     /\ op'.name = "size" => ret' = size
     /\ (\/ op'.name \in {"peek", "size"}
         \/ op'.name = "at" /\ op'.arg >= 0 /\ op'.arg < size) =>
          /\ status' = "active"
          /\ UNCHANGED memvars]_vars

\* C14 witness: priqueue_at has returned the third of four entries
C14_Witness ==
  /\ status = "active" /\ op.name = "at" /\ op.arg = 2
  /\ size = 4
  /\ ret = Contents[3]
  /\ Contents[3] # Contents[1] /\ Contents[3] # Contents[4]

\* the nodes of the chain, as a set
ChainNodes == {Chain[i] : i \in 1..Len(Chain)}

\* C15: priqueue_destroy frees every node reachable from root exactly once
\* and leaves size and root as they were: root is not reset to NULL and size
\* is not reset to 0, so the root of a queue that was not empty points to a
\* freed node afterwards.
C15_Destroy ==
  [][op'.name = "destroy" =>
       /\ status' = "destroyed"
       /\ freed' = freed \cup ChainNodes
       /\ allocated' = allocated \ ChainNodes
       /\ size' = size
       /\ root' = root
       /\ size > 0 => (root' # NULL /\ root' \in freed')]_vars

\* C15 witness: a queue of three has been destroyed after an earlier removal
C15_Witness ==
  /\ status = "destroyed" /\ op.name = "destroy"
  /\ size = 3
  /\ root \in freed
  /\ Cardinality(freed) = 4
  /\ allocated = {}

\* C16: with a comparer that answers anything at all, every priqueue_offer
\* still returns without following a NULL link, puts the item into the chain
\* exactly once, keeps the other entries in their order, and keeps the size
\* and chain-shape invariant; only the order of the result is unspecified.
C16_AnyComparerSafe ==
  [][op'.name = "offer" =>
       \E after \in {Chain'} : \E new \in {Newest'} :
          /\ status' = "active"
          /\ Cardinality({i \in 1..Len(after) : after[i] = new}) = 1
          /\ content'[new] = op'.arg
          /\ SelectSeq(after, LAMBDA n : n # new) = Chain
          /\ KeptContents
          /\ Len(after) = size'
          /\ size' = size + 1
          /\ \A i, j \in 1..Len(after) : i # j => after[i] # after[j]
          /\ \A i \in 1..Len(after) : after[i] \in allocated'
          /\ next'[after[Len(after)]] = NULL
          /\ size' = outstanding']_vars

\* C16 witness: the comparer has let an offer put 3 behind a 5, in front of
\* another 3, in a chain that was already out of order
C16_Witness ==
  /\ status = "active" /\ op.name = "offer" /\ op.arg = 1
  /\ Len(Chain) = 4
  /\ PosIn(Chain, Newest) = 3
  /\ Contents[1] = 3 /\ Contents[2] = 3 /\ Contents[3] = 1 /\ Contents[4] = 1

\* C17: every call on a queue in use, with any argument, ends after entering
\* the body of its loop at most size times (so after visiting at most
\* size + 1 nodes), whether it returns or is stopped.
C17_BoundedBySize ==
  status = "active" =>
    \A m \in {Cur} :
       /\ \A ptr \in Payload : \A node \in malloc(m) :
             offer(m, ptr, node).steps <= size
       /\ peek(m).steps <= size
       /\ poll(m).steps <= size
       /\ \A index \in Index : at(m, index).steps <= size
       /\ \A ptr \in Payload : remove(m, ptr).steps <= size
       /\ \A index \in Index : remove_at(m, index).steps <= size
       /\ size_of(m).steps <= size
       /\ destroy(m).steps <= size

\* C17 witness: a remove that found nothing has gone through all three
\* entries, as the next remove, destroy and an offer at the end will, and
\* priqueue_at of the last index takes two steps
C17_Witness ==
  /\ status = "active" /\ op.name = "remove" /\ ret = 0
  /\ size = 3
  /\ remove(Cur, op.arg).steps = 3
  /\ ~remove(Cur, op.arg).fault
  /\ destroy(Cur).steps = 3
  /\ \E ptr \in Payload : \E node \in malloc(Cur) : offer(Cur, ptr, node).steps = 3
  /\ at(Cur, 2).steps = 2
  /\ remove_at(Cur, 2).steps = 2

\* C18: in every state before priqueue_destroy the nodes allocated by offer
\* and not yet freed are exactly the nodes reachable from root: no freed node
\* is reachable, no node is freed twice or read after it was freed, and no
\* node that is not freed is out of reach.
C18_NodeOwnership ==
  status # "destroyed" =>
    /\ status # "undefined"
    /\ ChainNodes = allocated
    /\ ChainNodes \cap freed = {}
    /\ {offered[i] : i \in 1..Len(offered)} = ChainNodes
    /\ Len(Chain) = Cardinality(allocated)
    /\ Cardinality(allocated) = outstanding

\* C18 witness: of four nodes offered, one was freed by poll or remove and
\* then one by a priqueue_remove_at that returned its content; two are left,
\* and they are the chain
C18_Witness ==
  /\ status = "active" /\ op.name = "remove_at" /\ ret # NULL
  /\ Cardinality(freed) = 2
  /\ Cardinality(allocated) = 2
  /\ ChainNodes = allocated
  /\ root # 1

\* C19: while the queue exists, the contents of the chain are, as a multiset,
\* the items offered so far less the items returned by priqueue_poll and
\* priqueue_remove_at and the items removed by priqueue_remove: no call
\* drops, duplicates or replaces a content it was not asked to remove.
C19_ContentConservation ==
  status # "destroyed" =>
    /\ \A i \in 1..Len(Contents) : Contents[i] \in Payload
    /\ \A p \in Payload : CountIn(Contents, p) = held[p]

\* C19 witness: a pointer offered twice was removed twice by one
\* priqueue_remove, and the two items left in the chain are one pointer
C19_Witness ==
  /\ status = "active" /\ op.name = "remove" /\ ret = 2
  /\ held[op.arg] = 0
  /\ Len(Contents) = 2
  /\ \E p \in Payload : held[p] = 2 /\ CountIn(Contents, p) = 2

\* C20: with a comparer that is a consistent total preorder, whenever offer,
\* poll, remove and remove_at calls have left the queue non-empty,
\* priqueue_peek and the next priqueue_poll return the same entry e,
\* comparer(e, x) <= 0 for every entry x of the queue, and e was offered before
\* every other entry that compares equal to it.
C20_Minimum ==
  (status = "active" /\ Len(Chain) > 0) =>
    LET e == Chain[1]
    IN /\ e \in allocated
       /\ peek(Cur) = Returns(Cur, content[e])
       /\ ~poll(Cur).fault
       /\ poll(Cur).ret = content[e]
       /\ poll(Cur).mem.freed = freed \cup {e}
       /\ \A x \in allocated : comparer[content[e], content[x]] <= 0
       /\ \A x \in allocated \ {e} :
             comparer[content[e], content[x]] = 0 =>
               PosIn(offered, e) < PosIn(offered, x)

\* C20 witness: after a removal, priqueue_peek has returned the head of three
\* entries, which is the earlier offered of two different pointers that
\* compare equal, in front of a greater one
C20_Witness ==
  /\ status = "active" /\ op.name = "peek"
  /\ freed # {}
  /\ Len(Chain) = 3
  /\ ret = Contents[1]
  /\ Contents[1] # Contents[2]
  /\ comparer[Contents[1], Contents[2]] = 0
  /\ comparer[Contents[2], Contents[3]] < 0
  /\ PosIn(offered, Chain[1]) < PosIn(offered, Chain[2])
====
